---- MODULE Spec2Model ----
(***************************************************************************)
(* Router::RetryStateImpl (source/common/router/retry_state_impl.cc).     *)
(*                                                                         *)
(* Every request owns at most one retry state.  All retry states of one   *)
(* (cluster, priority) share one retry limiter and one set of statistics. *)
(* A retry state lives on the worker thread of its request; different     *)
(* requests may live on different workers, so the steps of two requests   *)
(* interleave at the granularity of the limiter's atomic operations.      *)
(***************************************************************************)
EXTENDS Integers, Sequences, FiniteSets, TLC

Requests == {1, 2}

\* ----- bounds of the model ------------------------------------------------
MaxNumRetries == 2      \* route policies carry numRetries in 0..MaxNumRetries
MaxCalls == 3           \* shouldRetry calls issued on one retry state
MaxResource == 1        \* the limiter's cap is drawn from 0..MaxResource

\* ----- values ---------------------------------------------------------------
NoCallback == "nullptr"
Callbacks == {"cbA", "cbB"}

Yes == "Yes"
No == "No"
NoOverflow == "NoOverflow"
NoRetryLimitExceeded == "NoRetryLimitExceeded"
NoResult == "none"              \* no decision returned yet
InCall == "in-call"             \* a shouldRetry call is between canCreate() and inc()
RetryStatuses == {Yes, No, NoOverflow, NoRetryLimitExceeded}

\* RetryPolicy::RETRY_ON_* : retry_on_ is the set of the bits that are set
RETRY_ON_5XX == "RETRY_ON_5XX"
RETRY_ON_GATEWAY_ERROR == "RETRY_ON_GATEWAY_ERROR"
RETRY_ON_CONNECT_FAILURE == "RETRY_ON_CONNECT_FAILURE"
RETRY_ON_RETRIABLE_4XX == "RETRY_ON_RETRIABLE_4XX"
RETRY_ON_REFUSED_STREAM == "RETRY_ON_REFUSED_STREAM"
RETRY_ON_RETRIABLE_STATUS_CODES == "RETRY_ON_RETRIABLE_STATUS_CODES"
RETRY_ON_GRPC_CANCELLED == "RETRY_ON_GRPC_CANCELLED"
RETRY_ON_GRPC_DEADLINE_EXCEEDED == "RETRY_ON_GRPC_DEADLINE_EXCEEDED"
RETRY_ON_GRPC_RESOURCE_EXHAUSTED == "RETRY_ON_GRPC_RESOURCE_EXHAUSTED"
RETRY_ON_GRPC_UNAVAILABLE == "RETRY_ON_GRPC_UNAVAILABLE"
RETRY_ON_GRPC_INTERNAL == "RETRY_ON_GRPC_INTERNAL"

\* request headers this code reads; a header map is a function whose domain
\* is the set of the headers present
EnvoyRetryOn == "x-envoy-retry-on"
EnvoyRetryGrpcOn == "x-envoy-retry-grpc-on"
EnvoyMaxRetries == "x-envoy-max-retries"
EnvoyRetriableStatusCodes == "x-envoy-retriable-status-codes"
OtherHeader == "x-request-id"

Max(a, b) == IF a >= b THEN a ELSE b

\* ----- the variables --------------------------------------------------------
VARIABLES
  reqs,                     \* the requests of this run
  route_policy,             \* [r -> the route's RetryPolicy]
  request_headers,          \* [r -> the request's header map]
  ret,                      \* [r -> "unborn" | "null" | "live" | "destroyed"]
  retry_on_,                \* RetryStateImpl members, per request
  retries_remaining_,
  retriable_status_codes_,
  callback_,
  timer_pending,            \* [r -> 0, or the number of the arm retry_timer_ waits for]
  pc,                       \* [r -> "idle" | "gate"]
  callback_arg,             \* the arguments of the latest shouldRetry call
  would_retry_arg,
  last_result,              \* what the latest shouldRetry call returned
  calls,                    \* shouldRetry calls issued so far
  retries_max,              \* resourceManager(priority).retries(): cap and current
  retries_current,
  others,                   \* limiter slots held by the cluster's other requests
  upstream_rq_retry_,       \* cluster_.stats()
  upstream_rq_retry_success_,
  upstream_rq_retry_overflow_,
  incs, decs,               \* retries().inc() / dec() calls made by each request
  arms,                     \* [r -> the continuations of the enableBackoffTimer calls]
  invoked,                  \* [r -> the timer fires: <<arm, callback_ at the fire>>]
  superseded,               \* [r -> arms pending when a decision or destruction came]
  assert_failed,            \* ASSERT(!callback_) failed
  terminated,               \* an empty std::function was called
  initial_remaining,        \* [r -> retries_remaining_ as the constructor left it]
  tally,                    \* [r -> how many shouldRetry calls returned each RetryStatus]
  probe                     \* the latest wouldRetryFrom... call: its input and result

vars == <<reqs, route_policy, request_headers, ret, retry_on_, retries_remaining_,
          retriable_status_codes_, callback_, timer_pending, pc, callback_arg,
          would_retry_arg, last_result, calls, retries_max, retries_current, others,
          upstream_rq_retry_, upstream_rq_retry_success_, upstream_rq_retry_overflow_,
          incs, decs, arms, invoked, superseded, assert_failed, terminated,
          initial_remaining, tally, probe>>

\* ----- strings --------------------------------------------------------------
\* A number in a header is a sequence of characters; a list header is the
\* sequence of its comma-separated tokens.
Digits == <<"0", "1", "2", "3", "4", "5", "6", "7", "8", "9">>

IsDigit(c) == \E d \in 1..10 : Digits[d] = c

DigitValue(c) == (CHOOSE d \in 1..10 : Digits[d] = c) - 1

RECURSIVE DecimalValue(_)
DecimalValue(s) ==
  IF s = <<>> THEN 0
  ELSE 10 * DecimalValue(SubSeq(s, 1, Len(s) - 1)) + DigitValue(s[Len(s)])

\* StringUtil::atoull: does the string parse as an unsigned decimal integer
atoullOk(s) == Len(s) > 0 /\ \A i \in 1..Len(s) : IsDigit(s[i])

atoull(s) == DecimalValue(s)

\* ----- RetryStateImpl::parseRetryOn / parseRetryGrpcOn ----------------------
RetryOnToken(tok) ==
  IF tok = "5xx" THEN {RETRY_ON_5XX}
  ELSE IF tok = "gateway-error" THEN {RETRY_ON_GATEWAY_ERROR}
  ELSE IF tok = "connect-failure" THEN {RETRY_ON_CONNECT_FAILURE}
  ELSE IF tok = "retriable-4xx" THEN {RETRY_ON_RETRIABLE_4XX}
  ELSE IF tok = "refused-stream" THEN {RETRY_ON_REFUSED_STREAM}
  ELSE IF tok = "retriable-status-codes" THEN {RETRY_ON_RETRIABLE_STATUS_CODES}
  ELSE {}

parseRetryOn(config) == UNION {RetryOnToken(config[i]) : i \in 1..Len(config)}

RetryGrpcOnToken(tok) ==
  IF tok = "cancelled" THEN {RETRY_ON_GRPC_CANCELLED}
  ELSE IF tok = "deadline-exceeded" THEN {RETRY_ON_GRPC_DEADLINE_EXCEEDED}
  ELSE IF tok = "resource-exhausted" THEN {RETRY_ON_GRPC_RESOURCE_EXHAUSTED}
  ELSE IF tok = "unavailable" THEN {RETRY_ON_GRPC_UNAVAILABLE}
  ELSE IF tok = "internal" THEN {RETRY_ON_GRPC_INTERNAL}
  ELSE {}

parseRetryGrpcOn(retry_grpc_on_header) ==
  UNION {RetryGrpcOnToken(retry_grpc_on_header[i]) : i \in 1..Len(retry_grpc_on_header)}

\* ----- RetryStateImpl::RetryStateImpl ---------------------------------------
\* uint32_t retries_remaining_{1}: the member's initializer
DefaultRetriesRemaining == 1

\* the floor of one retry forgotten
InitialRetriesRemainingNoFloor(policy) == policy.numRetries

InitialRetriesRemaining(policy) == Max(DefaultRetriesRemaining, policy.numRetries)

MergedRetryOn(policy, headers) ==
  policy.retryOn
    \cup (IF EnvoyRetryOn \in DOMAIN headers
          THEN parseRetryOn(headers[EnvoyRetryOn]) ELSE {})
    \cup (IF EnvoyRetryGrpcOn \in DOMAIN headers
          THEN parseRetryGrpcOn(headers[EnvoyRetryGrpcOn]) ELSE {})

\* the header taken only when it declares more than the route
MaxRetriesOverrideOnlyLarger(policy, headers) ==
  IF /\ MergedRetryOn(policy, headers) # {}
     /\ EnvoyMaxRetries \in DOMAIN headers
     /\ atoullOk(headers[EnvoyMaxRetries])
  THEN Max(atoull(headers[EnvoyMaxRetries]), InitialRetriesRemaining(policy))
  ELSE InitialRetriesRemaining(policy)

\* retries_remaining_ after the constructor: the max-retries header, if it
\* parses and retry_on_ is not 0, replaces the route's count
MaxRetriesOverride(policy, headers) ==
  IF /\ MergedRetryOn(policy, headers) # {}
     /\ EnvoyMaxRetries \in DOMAIN headers
     /\ atoullOk(headers[EnvoyMaxRetries])
  THEN atoull(headers[EnvoyMaxRetries])
  ELSE InitialRetriesRemaining(policy)

RECURSIVE ParsedCodes(_)
ParsedCodes(tokens) ==
  IF tokens = <<>> THEN <<>>
  ELSE (IF atoullOk(Head(tokens)) THEN <<atoull(Head(tokens))>> ELSE <<>>)
         \o ParsedCodes(Tail(tokens))

MergedStatusCodes(policy, headers) ==
  policy.retriableStatusCodes
    \o (IF EnvoyRetriableStatusCodes \in DOMAIN headers
        THEN ParsedCodes(headers[EnvoyRetriableStatusCodes]) ELSE <<>>)


\* ----- RetryStateImpl::create -----------------------------------------------
\* the short circuit looking at the route policy alone
ShouldAllocatePolicyOnly(policy, headers) == policy.retryOn # {}

\* the short circuit: is a retry state allocated at all
ShouldAllocate(policy, headers) ==
  \/ EnvoyRetryOn \in DOMAIN headers
  \/ EnvoyRetryGrpcOn \in DOMAIN headers
  \/ policy.retryOn # {}

RemovedByCreate == {EnvoyRetryOn, EnvoyRetryGrpcOn, EnvoyMaxRetries}

RemoveHeaders(headers) ==
  [h \in (DOMAIN headers) \ RemovedByCreate |-> headers[h]]

create(r) ==
  /\ ~terminated
  /\ r \in reqs
  /\ ret[r] = "unborn"
  /\ LET policy == route_policy[r]
         headers == request_headers[r]
     IN  /\ IF ShouldAllocate(policy, headers)
            THEN /\ ret' = [ret EXCEPT ![r] = "live"]
                 /\ retry_on_' = [retry_on_ EXCEPT ![r] = MergedRetryOn(policy, headers)]
                 /\ retries_remaining_' =
                      [retries_remaining_ EXCEPT ![r] = MaxRetriesOverride(policy, headers)]
                 /\ retriable_status_codes_' =
                      [retriable_status_codes_ EXCEPT ![r] = MergedStatusCodes(policy, headers)]
            ELSE /\ ret' = [ret EXCEPT ![r] = "null"]
                 /\ UNCHANGED <<retry_on_, retries_remaining_, retriable_status_codes_>>
         /\ request_headers' = [request_headers EXCEPT ![r] = RemoveHeaders(headers)]
  /\ initial_remaining' = [initial_remaining EXCEPT ![r] = retries_remaining_'[r]]
  /\ UNCHANGED <<probe, tally, reqs, route_policy, callback_, timer_pending, pc,
                 callback_arg, would_retry_arg, last_result, calls, retries_max,
                 retries_current, others, upstream_rq_retry_, upstream_rq_retry_success_,
                 upstream_rq_retry_overflow_, incs, decs, arms, invoked, superseded,
                 assert_failed, terminated>>

\* ----- Http::CodeUtility, as the retry state uses it --------------------------
is5xx(code) == code >= 500 /\ code <= 599

isGatewayError(code) == code \in {502, 503, 504}

\* ----- RetryStateImpl::wouldRetryFromHeaders --------------------------------
\* a response: [status, overloaded, rate_limited, grpc_status]; grpc_status is
\* "none" when the response carries no gRPC status
GrpcRetryBits == {RETRY_ON_GRPC_CANCELLED, RETRY_ON_GRPC_DEADLINE_EXCEEDED,
                  RETRY_ON_GRPC_RESOURCE_EXHAUSTED, RETRY_ON_GRPC_UNAVAILABLE,
                  RETRY_ON_GRPC_INTERNAL}

GrpcStatusMatches(retry_on, status) ==
  \/ status = "Canceled" /\ RETRY_ON_GRPC_CANCELLED \in retry_on
  \/ status = "DeadlineExceeded" /\ RETRY_ON_GRPC_DEADLINE_EXCEEDED \in retry_on
  \/ status = "ResourceExhausted" /\ RETRY_ON_GRPC_RESOURCE_EXHAUSTED \in retry_on
  \/ status = "Unavailable" /\ RETRY_ON_GRPC_UNAVAILABLE \in retry_on
  \/ status = "Internal" /\ RETRY_ON_GRPC_INTERNAL \in retry_on

\* the rate-limited check left out
wouldRetryFromHeadersNoRateLimit(retry_on, codes, response) ==
  IF response.overloaded THEN FALSE
  ELSE IF RETRY_ON_5XX \in retry_on /\ is5xx(response.status) THEN TRUE
  ELSE IF RETRY_ON_GATEWAY_ERROR \in retry_on /\ isGatewayError(response.status) THEN TRUE
  ELSE IF RETRY_ON_RETRIABLE_4XX \in retry_on /\ response.status = 409 THEN TRUE
  ELSE IF /\ RETRY_ON_RETRIABLE_STATUS_CODES \in retry_on
          /\ \E i \in 1..Len(codes) : response.status = codes[i] THEN TRUE
  ELSE IF /\ retry_on \cap GrpcRetryBits # {}
          /\ response.grpc_status # "none"
          /\ GrpcStatusMatches(retry_on, response.grpc_status) THEN TRUE
  ELSE FALSE

wouldRetryFromHeaders(retry_on, codes, response) ==
  IF response.overloaded THEN FALSE
  ELSE IF response.rate_limited THEN FALSE
  ELSE IF RETRY_ON_5XX \in retry_on /\ is5xx(response.status) THEN TRUE
  ELSE IF RETRY_ON_GATEWAY_ERROR \in retry_on /\ isGatewayError(response.status) THEN TRUE
  ELSE IF RETRY_ON_RETRIABLE_4XX \in retry_on /\ response.status = 409 THEN TRUE
  ELSE IF /\ RETRY_ON_RETRIABLE_STATUS_CODES \in retry_on
          /\ \E i \in 1..Len(codes) : response.status = codes[i] THEN TRUE
  ELSE IF /\ retry_on \cap GrpcRetryBits # {}
          /\ response.grpc_status # "none"
          /\ GrpcStatusMatches(retry_on, response.grpc_status) THEN TRUE
  ELSE FALSE

\* ----- RetryStateImpl::wouldRetryFromReset ----------------------------------
\* the 5xx test put before the overflow test
wouldRetryFromResetOverflowLate(retry_on, reset_reason) ==
  IF retry_on \cap {RETRY_ON_5XX, RETRY_ON_GATEWAY_ERROR} # {} THEN TRUE
  ELSE IF reset_reason = "Overflow" THEN FALSE
  ELSE IF /\ RETRY_ON_REFUSED_STREAM \in retry_on
          /\ reset_reason = "RemoteRefusedStreamReset" THEN TRUE
  ELSE IF /\ RETRY_ON_CONNECT_FAILURE \in retry_on
          /\ reset_reason = "ConnectionFailure" THEN TRUE
  ELSE FALSE

wouldRetryFromReset(retry_on, reset_reason) ==
  IF reset_reason = "Overflow" THEN FALSE
  ELSE IF retry_on \cap {RETRY_ON_5XX, RETRY_ON_GATEWAY_ERROR} # {} THEN TRUE
  ELSE IF /\ RETRY_ON_REFUSED_STREAM \in retry_on
          /\ reset_reason = "RemoteRefusedStreamReset" THEN TRUE
  ELSE IF /\ RETRY_ON_CONNECT_FAILURE \in retry_on
          /\ reset_reason = "ConnectionFailure" THEN TRUE
  ELSE FALSE

\* ----- the shared limiter: ResourceManager::retries() -----------------------
canCreate(current, max) == current < max

\* ----- RetryStateImpl::resetRetry -------------------------------------------
\* dec() without the callback_ check
resetRetryDecUnguarded(cb) == 1

\* the number of retries().dec() calls resetRetry makes
resetRetryDec(cb) == IF cb # NoCallback THEN 1 ELSE 0

\* callback_ left registered
resetRetryKeepsCallback(cb) == cb

\* the callback_ resetRetry leaves
resetRetryCallback(cb) == NoCallback

\* ----- RetryStateImpl::shouldRetry ------------------------------------------
\* the would_retry test inverted
RecordsSuccessInverted(cb, would_retry) == cb # NoCallback /\ would_retry

\* the callback_ test left out
RecordsSuccessUnarmed(cb, would_retry) == ~would_retry

\* the success test made after resetRetry()
RecordsSuccessAfterReset(cb, would_retry) ==
  resetRetryCallback(cb) # NoCallback /\ ~would_retry

\* upstream_rq_retry_success_ is incremented
RecordsSuccess(cb, would_retry) == cb # NoCallback /\ ~would_retry

\* the limit test off by one
LimitExceededBelowZero(remaining) == remaining < 0

\* retries_remaining_ == 0
LimitExceeded(remaining) == remaining = 0

\* the decrement forgotten
RemainingAfterNoDecrement(remaining) == remaining

\* the decrement made before the limit check, in unsigned arithmetic
RemainingAfterDecrementFirst(remaining) ==
  IF remaining = 0 THEN MaxNumRetries ELSE remaining - 1

\* retries_remaining_ after the limit check and the decrement
RemainingAfter(remaining) == IF LimitExceeded(remaining) THEN remaining ELSE remaining - 1

\* canCreate() checked before would_retry
DecideFirstLimiterFirst(remaining, would_retry, current, max) ==
  IF LimitExceeded(remaining) THEN NoRetryLimitExceeded
  ELSE IF ~canCreate(current, max) THEN NoOverflow
  ELSE IF ~would_retry THEN No
  ELSE InCall

\* the part of shouldRetry up to the canCreate() check: what it returns, or InCall
\* when the call goes on to the feature gate; current is the limiter as
\* resetRetry left it
DecideFirst(remaining, would_retry, current, max) ==
  IF LimitExceeded(remaining) THEN NoRetryLimitExceeded
  ELSE IF ~would_retry THEN No
  ELSE IF ~canCreate(current, max) THEN NoOverflow
  ELSE InCall

\* the part after it: the feature gate upstream.use_retry
DecideGate(feature_enabled) == IF ~feature_enabled THEN No ELSE Yes

\* retries().inc() called before the feature gate
IncsBeforeGate(result) == 1

\* retries().inc() calls made between the feature gate and the return
IncsAtGate(result) == IF result = Yes THEN 1 ELSE 0

\* enableBackoffTimer() called before the feature gate
ArmsTimerAlways(result) == TRUE

\* enableBackoffTimer() is called between the feature gate and the return
ArmsTimer(result) == result = Yes

\* the count of the calls that returned each RetryStatus, a call counted at its return
Tallied(t, r, result) == IF result = InCall THEN t ELSE [t EXCEPT ![r][result] = @ + 1]

\* shouldRetry up to and including retries().canCreate()
shouldRetry(r, would_retry, callback) ==
  /\ ~terminated
  /\ r \in reqs
  /\ ret[r] = "live"
  /\ pc[r] = "idle"
  /\ calls[r] < MaxCalls
  /\ LET cb == callback_[r]
         dec == resetRetryDec(cb)
         current == retries_current - dec
         result == DecideFirst(retries_remaining_[r], would_retry, current, retries_max)
     IN  /\ calls' = [calls EXCEPT ![r] = @ + 1]
         /\ callback_arg' = [callback_arg EXCEPT ![r] = callback]
         /\ would_retry_arg' = [would_retry_arg EXCEPT ![r] = would_retry]
         /\ upstream_rq_retry_success_' =
              upstream_rq_retry_success_ + (IF RecordsSuccess(cb, would_retry) THEN 1 ELSE 0)
         /\ retries_current' = current
         /\ decs' = [decs EXCEPT ![r] = @ + dec]
         /\ callback_' = [callback_ EXCEPT ![r] = resetRetryCallback(cb)]
         /\ superseded' = [superseded EXCEPT ![r] =
                             @ \cup (IF timer_pending[r] # 0 THEN {timer_pending[r]} ELSE {})]
         /\ retries_remaining_' = [retries_remaining_ EXCEPT ![r] = RemainingAfter(@)]
         /\ upstream_rq_retry_overflow_' =
              upstream_rq_retry_overflow_ + (IF result = NoOverflow THEN 1 ELSE 0)
         /\ last_result' = [last_result EXCEPT ![r] = result]
         /\ tally' = Tallied(tally, r, result)
         /\ pc' = [pc EXCEPT ![r] = IF result = InCall THEN "gate" ELSE "idle"]
  /\ UNCHANGED <<probe, initial_remaining, reqs, route_policy, request_headers, ret,
                 retry_on_, retriable_status_codes_, timer_pending, retries_max, others,
                 upstream_rq_retry_, incs, arms, invoked, assert_failed, terminated>>

\* shouldRetry from the feature gate to its return: the gate, then ASSERT,
\* callback_ = callback, retries().inc(), the statistic, enableBackoffTimer()
shouldRetryGate(r, feature_enabled) ==
  /\ ~terminated
  /\ r \in reqs
  /\ pc[r] = "gate"
  /\ LET result == DecideGate(feature_enabled)
     IN  /\ last_result' = [last_result EXCEPT ![r] = result]
         /\ tally' = Tallied(tally, r, result)
         /\ pc' = [pc EXCEPT ![r] = "idle"]
         /\ IF result = Yes
            THEN /\ assert_failed' = (assert_failed \/ callback_[r] # NoCallback)
                 /\ callback_' = [callback_ EXCEPT ![r] = callback_arg[r]]
                 /\ upstream_rq_retry_' = upstream_rq_retry_ + 1
            ELSE UNCHANGED <<assert_failed, callback_, upstream_rq_retry_>>
         /\ retries_current' = retries_current + IncsAtGate(result)
         /\ incs' = [incs EXCEPT ![r] = @ + IncsAtGate(result)]
         /\ IF ArmsTimer(result)
            THEN /\ arms' = [arms EXCEPT ![r] = Append(@, callback_arg[r])]
                 /\ timer_pending' = [timer_pending EXCEPT ![r] = Len(arms[r]) + 1]
            ELSE UNCHANGED <<arms, timer_pending>>
  /\ UNCHANGED <<probe, initial_remaining, reqs, route_policy, request_headers, ret,
                 retry_on_, retries_remaining_, retriable_status_codes_, callback_arg,
                 would_retry_arg, calls, retries_max, others, upstream_rq_retry_success_,
                 upstream_rq_retry_overflow_, decs, invoked, superseded, terminated>>

\* ----- shouldRetryHeaders / shouldRetryReset --------------------------------
shouldRetryHeaders(r, response_headers, callback) ==
  shouldRetry(r, wouldRetryFromHeaders(retry_on_[r], retriable_status_codes_[r],
                                       response_headers), callback)

shouldRetryReset(r, reset_reason, callback) ==
  shouldRetry(r, wouldRetryFromReset(retry_on_[r], reset_reason), callback)

\* ----- the timer callback of enableBackoffTimer: callback_() ----------------
\* the lambda made to reset the state after the call
AfterFireClears(cb) == NoCallback

\* callback_ once the timer callback has run: the lambda calls it and leaves it
AfterFire(cb) == cb

timerFires(r) ==
  /\ ~terminated
  /\ r \in reqs
  /\ ret[r] = "live"
  /\ pc[r] = "idle"
  /\ timer_pending[r] # 0
  /\ timer_pending' = [timer_pending EXCEPT ![r] = 0]
  /\ invoked' = [invoked EXCEPT ![r] = Append(@, <<timer_pending[r], callback_[r]>>)]
  /\ terminated' = (callback_[r] = NoCallback)
  /\ callback_' = [callback_ EXCEPT ![r] = AfterFire(@)]
  /\ UNCHANGED <<probe, initial_remaining, tally, reqs, route_policy, request_headers,
                 ret, retry_on_, retries_remaining_, retriable_status_codes_, pc,
                 callback_arg, would_retry_arg, last_result, calls, retries_max,
                 retries_current, others, upstream_rq_retry_, upstream_rq_retry_success_,
                 upstream_rq_retry_overflow_, incs, decs, arms, superseded, assert_failed>>

\* ----- RetryStateImpl::~RetryStateImpl --------------------------------------
\* resetRetry(), then the members go: retry_timer_ is destroyed with the state
destroy(r) ==
  /\ ~terminated
  /\ r \in reqs
  /\ ret[r] = "live"
  /\ pc[r] = "idle"
  /\ LET dec == resetRetryDec(callback_[r])
     IN  /\ retries_current' = retries_current - dec
         /\ decs' = [decs EXCEPT ![r] = @ + dec]
         /\ callback_' = [callback_ EXCEPT ![r] = resetRetryCallback(@)]
  /\ superseded' = [superseded EXCEPT ![r] =
                      @ \cup (IF timer_pending[r] # 0 THEN {timer_pending[r]} ELSE {})]
  /\ timer_pending' = [timer_pending EXCEPT ![r] = 0]
  /\ ret' = [ret EXCEPT ![r] = "destroyed"]
  /\ UNCHANGED <<probe, initial_remaining, tally, reqs, route_policy, request_headers,
                 retry_on_, retries_remaining_, retriable_status_codes_, pc,
                 callback_arg, would_retry_arg, last_result, calls, retries_max, others,
                 upstream_rq_retry_, upstream_rq_retry_success_,
                 upstream_rq_retry_overflow_, incs, arms, invoked, assert_failed,
                 terminated>>

\* ----- the other requests of the cluster, at the shared limiter -------------
\* another request's shouldRetry acquires a slot, its resetRetry releases it
otherAcquires ==
  /\ ~terminated
  /\ canCreate(retries_current, retries_max)
  /\ retries_current' = retries_current + 1
  /\ others' = others + 1
  /\ UNCHANGED <<probe, initial_remaining, tally, reqs, route_policy, request_headers,
                 ret, retry_on_, retries_remaining_, retriable_status_codes_, callback_,
                 timer_pending, pc, callback_arg, would_retry_arg, last_result, calls,
                 retries_max, upstream_rq_retry_, upstream_rq_retry_success_,
                 upstream_rq_retry_overflow_, incs, decs, arms, invoked, superseded,
                 assert_failed, terminated>>

otherReleases ==
  /\ ~terminated
  /\ others > 0
  /\ retries_current' = retries_current - 1
  /\ others' = others - 1
  /\ UNCHANGED <<probe, initial_remaining, tally, reqs, route_policy, request_headers,
                 ret, retry_on_, retries_remaining_, retriable_status_codes_, callback_,
                 timer_pending, pc, callback_arg, would_retry_arg, last_result, calls,
                 retries_max, upstream_rq_retry_, upstream_rq_retry_success_,
                 upstream_rq_retry_overflow_, incs, decs, arms, invoked, superseded,
                 assert_failed, terminated>>

\* ----- wouldRetryFromHeaders / wouldRetryFromReset, called on their own ------
\* the record of such a call: on which state, with what, and what it returned
Probe(fn, r, response, reason, result) ==
  [fn |-> fn, r |-> r, response |-> response, reason |-> reason, result |-> result]

NoResponse ==
  [status |-> 0, overloaded |-> FALSE, rate_limited |-> FALSE, grpc_status |-> "none"]

NoProbe == Probe("none", 0, NoResponse, "none", FALSE)

callWouldRetryFromHeaders(r, response_headers) ==
  /\ ~terminated
  /\ r \in reqs
  /\ ret[r] = "live"
  /\ pc[r] = "idle"
  /\ probe = NoProbe
  /\ probe' = Probe("headers", r, response_headers, "none",
                    wouldRetryFromHeaders(retry_on_[r], retriable_status_codes_[r],
                                          response_headers))
  /\ UNCHANGED <<initial_remaining, tally, reqs, route_policy, request_headers, ret,
                 retry_on_, retries_remaining_, retriable_status_codes_, callback_,
                 timer_pending, pc, callback_arg, would_retry_arg, last_result, calls,
                 retries_max, retries_current, others, upstream_rq_retry_,
                 upstream_rq_retry_success_, upstream_rq_retry_overflow_, incs, decs,
                 arms, invoked, superseded, assert_failed, terminated>>

callWouldRetryFromReset(r, reset_reason) ==
  /\ ~terminated
  /\ r \in reqs
  /\ ret[r] = "live"
  /\ pc[r] = "idle"
  /\ probe = NoProbe
  /\ probe' = Probe("reset", r, NoResponse, reset_reason,
                    wouldRetryFromReset(retry_on_[r], reset_reason))
  /\ UNCHANGED <<initial_remaining, tally, reqs, route_policy, request_headers, ret,
                 retry_on_, retries_remaining_, retriable_status_codes_, callback_,
                 timer_pending, pc, callback_arg, would_retry_arg, last_result, calls,
                 retries_max, retries_current, others, upstream_rq_retry_,
                 upstream_rq_retry_success_, upstream_rq_retry_overflow_, incs, decs,
                 arms, invoked, superseded, assert_failed, terminated>>

\* ----- the inputs -----------------------------------------------------------
Response(status, overloaded, rate_limited, grpc_status) ==
  [status |-> status, overloaded |-> overloaded, rate_limited |-> rate_limited,
   grpc_status |-> grpc_status]

Responses ==
  {Response(200, FALSE, FALSE, "none"), Response(503, FALSE, FALSE, "none"),
   Response(503, TRUE, FALSE, "none"), Response(503, FALSE, TRUE, "none"),
   Response(409, FALSE, FALSE, "none"), Response(429, FALSE, FALSE, "none"),
   Response(200, FALSE, FALSE, "Unavailable"), Response(200, FALSE, FALSE, "Ok")}

ResetReasons == {"Overflow", "RemoteRefusedStreamReset", "ConnectionFailure", "RemoteReset"}

Policy(retryOn, numRetries, codes) ==
  [retryOn |-> retryOn, numRetries |-> numRetries, retriableStatusCodes |-> codes]

NoPolicy == Policy({}, 0, <<>>)

\* a header map from the values chosen for each header; "absent" leaves it out
Absent == <<"absent">>

HeaderMap(retry_on, grpc_on, max_retries, codes, other) ==
  LET all == [x \in {EnvoyRetryOn, EnvoyRetryGrpcOn, EnvoyMaxRetries,
                     EnvoyRetriableStatusCodes, OtherHeader} |->
                CASE x = EnvoyRetryOn -> retry_on
                  [] x = EnvoyRetryGrpcOn -> grpc_on
                  [] x = EnvoyMaxRetries -> max_retries
                  [] x = EnvoyRetriableStatusCodes -> codes
                  [] x = OtherHeader -> other]
  IN  [x \in {y \in DOMAIN all : all[y] # Absent} |-> all[x]]

NoHeaders == HeaderMap(Absent, Absent, Absent, Absent, Absent)

\* one request through its life
LifePolicies ==
  {Policy(retryOn, n, <<>>) : retryOn \in {{}, {RETRY_ON_5XX}}, n \in 0..MaxNumRetries}

LifeHeaders ==
  {NoHeaders,
   HeaderMap(<<"bogus">>, Absent, Absent, Absent, Absent),
   HeaderMap(<<"connect-failure">>, Absent, <<"2">>, Absent, <<"i", "d">>),
   HeaderMap(Absent, Absent, <<"0">>, Absent, Absent),
   HeaderMap(Absent, Absent, <<"1", "x">>, <<<<"4", "2", "9">>>>, Absent)}

\* two requests of one cluster
SharedPolicies == {Policy({RETRY_ON_5XX}, n, <<>>) : n \in 1..MaxNumRetries}

SharedHeaders == {NoHeaders}

\* construction alone
CreatePolicies ==
  {Policy(retryOn, n, codes) :
     retryOn \in {{}, {RETRY_ON_5XX}, {RETRY_ON_RETRIABLE_STATUS_CODES}},
     n \in 0..MaxNumRetries, codes \in {<<>>, <<409>>}}

CreateHeaders ==
  {HeaderMap(retry_on, grpc_on, max_retries, codes, other) :
     retry_on \in {Absent, <<>>, <<"5xx">>, <<"5XX", "bogus">>,
                   <<"retriable-4xx", "refused-stream">>,
                   <<"gateway-error", "retriable-status-codes", "connect-failure">>},
     grpc_on \in {Absent, <<"bogus">>, <<"unavailable">>,
                  <<"cancelled", "deadline-exceeded", "resource-exhausted", "internal">>},
     max_retries \in {Absent, <<>>, <<"0">>, <<"3">>, <<"1", "2">>, <<"x">>, <<"2", "x">>},
     codes \in {Absent, <<<<"4", "0", "9">>, <<"4", "2", "9">>>>, <<<<"4", "x">>, <<"5">>>>},
     other \in {Absent, <<"i", "d">>}}

InitWith(rs, policies, headers) ==
  /\ reqs = rs
  /\ \E p \in [rs -> policies] :
       route_policy = [r \in Requests |-> IF r \in rs THEN p[r] ELSE NoPolicy]
  /\ \E h \in [rs -> headers] :
       request_headers = [r \in Requests |-> IF r \in rs THEN h[r] ELSE NoHeaders]
  /\ ret = [r \in Requests |-> "unborn"]
  /\ retry_on_ = [r \in Requests |-> {}]
  /\ retries_remaining_ = [r \in Requests |-> 0]
  /\ retriable_status_codes_ = [r \in Requests |-> <<>>]
  /\ callback_ = [r \in Requests |-> NoCallback]
  /\ timer_pending = [r \in Requests |-> 0]
  /\ pc = [r \in Requests |-> "idle"]
  /\ callback_arg = [r \in Requests |-> NoCallback]
  /\ would_retry_arg = [r \in Requests |-> FALSE]
  /\ last_result = [r \in Requests |-> NoResult]
  /\ calls = [r \in Requests |-> 0]
  /\ retries_max \in 0..MaxResource
  /\ retries_current = 0
  /\ others = 0
  /\ upstream_rq_retry_ = 0
  /\ upstream_rq_retry_success_ = 0
  /\ upstream_rq_retry_overflow_ = 0
  /\ incs = [r \in Requests |-> 0]
  /\ decs = [r \in Requests |-> 0]
  /\ arms = [r \in Requests |-> <<>>]
  /\ invoked = [r \in Requests |-> <<>>]
  /\ superseded = [r \in Requests |-> {}]
  /\ assert_failed = FALSE
  /\ terminated = FALSE
  /\ initial_remaining = [r \in Requests |-> 0]
  /\ tally = [r \in Requests |-> [x \in RetryStatuses |-> 0]]
  /\ probe = NoProbe

Init == InitWith({1}, LifePolicies, LifeHeaders)

InitShared == InitWith(Requests, SharedPolicies, SharedHeaders)

InitCreate == InitWith({1}, CreatePolicies, CreateHeaders)

NextCreate == \E r \in Requests : create(r)

NextShared ==
  \/ \E r \in Requests : create(r)
  \/ \E r \in Requests, response \in Responses, cb \in Callbacks :
       shouldRetryHeaders(r, response, cb)
  \/ \E r \in Requests, reason \in ResetReasons, cb \in Callbacks :
       shouldRetryReset(r, reason, cb)
  \/ \E r \in Requests, feature_enabled \in BOOLEAN : shouldRetryGate(r, feature_enabled)
  \/ \E r \in Requests : timerFires(r)
  \/ \E r \in Requests : destroy(r)

Next ==
  \/ NextShared
  \/ otherAcquires
  \/ otherReleases

\* one request among the cluster's other requests
Spec == Init /\ [][Next]_vars

\* two requests on two workers, sharing the limiter
SpecShared == InitShared /\ [][NextShared]_vars

\* RetryStateImpl::create alone, over many policies and header maps
SpecCreate == InitCreate /\ [][NextCreate]_vars

\* ----- the predicates alone ---------------------------------------------------
RetryOnBits ==
  {RETRY_ON_5XX, RETRY_ON_GATEWAY_ERROR, RETRY_ON_CONNECT_FAILURE, RETRY_ON_RETRIABLE_4XX,
   RETRY_ON_REFUSED_STREAM, RETRY_ON_RETRIABLE_STATUS_CODES} \cup GrpcRetryBits

\* the retry-on sets of at most two bits, and those lacking at most one bit
RetryOnSets ==
  {S \in SUBSET RetryOnBits : Cardinality(S) <= 2 \/ Cardinality(RetryOnBits \ S) <= 1}

PredicatePolicies ==
  {Policy(S, 1, codes) : S \in RetryOnSets, codes \in {<<>>, <<418>>}}

PredicateHeaders ==
  {NoHeaders,
   HeaderMap(Absent, Absent, Absent, <<<<"4", "0", "9">>, <<"4", "2", "9">>>>, Absent),
   HeaderMap(<<"retriable-status-codes">>, <<"internal">>, Absent,
             <<<<"4", "2", "x">>, <<"4", "2", "9">>>>, Absent)}

PredicateResponses ==
  {Response(status, overloaded, rate_limited, grpc_status) :
     status \in {200, 409, 418, 429, 499, 500, 502, 503, 504, 599, 600},
     overloaded \in BOOLEAN, rate_limited \in BOOLEAN,
     grpc_status \in {"none", "Ok", "Canceled", "Unknown", "DeadlineExceeded",
                      "ResourceExhausted", "Internal", "Unavailable"}}

InitPredicates ==
  /\ InitWith({1}, PredicatePolicies, PredicateHeaders)
  /\ retries_max = 1

NextPredicates ==
  \/ \E r \in Requests : create(r)
  \/ \E r \in Requests, response \in PredicateResponses :
       callWouldRetryFromHeaders(r, response)
  \/ \E r \in Requests, reason \in ResetReasons : callWouldRetryFromReset(r, reason)

\* wouldRetryFromHeaders and wouldRetryFromReset on one retry state
SpecPredicates == InitPredicates /\ [][NextPredicates]_vars

\* ----- the timer is fair ------------------------------------------------------
\* the dispatcher runs an enabled timer's callback
SpecLive == Init /\ [][Next]_vars /\ \A r \in Requests : WF_vars(timerFires(r))

\* ===========================================================================
\* The properties
\* ===========================================================================
\* the admission tokens a request holds
held(r) == incs[r] - decs[r]

\* this step is a shouldRetry call on r (its part up to canCreate())
Called(r) == calls'[r] = calls[r] + 1

\* this step is the part of a shouldRetry call on r after canCreate()
Gated(r) == pc[r] = "gate" /\ pc'[r] = "idle"

\* this step is RetryStateImpl::create for r
Created(r) == ret[r] = "unborn" /\ ret'[r] # "unborn"

\* C1: the inc() and dec() calls of one request differ by 0 or 1 in every
\* state, and are equal in number once the retry state is destroyed.
C1_AdmissionBalanced ==
  \A r \in Requests :
    /\ held(r) \in {0, 1}
    /\ ret[r] = "destroyed" => incs[r] = decs[r]

C1_Witness == ret[1] = "destroyed" /\ incs[1] = 2 /\ decs[1] = 2

\* C2: the shared in-flight retry counter is never negative and never above
\* the cap, under every interleaving of the requests' steps.
C2_LimiterWithinCap == retries_current >= 0 /\ retries_current <= retries_max

\* C3: a request holds a token exactly when a continuation is registered,
\* holds at most one, and ASSERT(!callback_) never fails.
C3_OneTokenIffCallback ==
  /\ ~assert_failed
  /\ \A r \in Requests :
       /\ held(r) \in {0, 1}
       /\ held(r) = 1 <=> callback_[r] # NoCallback

C3_Witness == callback_[1] # NoCallback /\ incs[1] = 2 /\ held(1) = 1

\* C4: an arm that was pending when a new decision or the destruction came
\* never fires afterwards and its token is released; the timer is never
\* pending while no continuation is registered.
C4_Cancellation ==
  \A r \in Requests :
    /\ \A i \in 1..Len(invoked[r]) : invoked[r][i][1] \notin superseded[r]
    /\ (pc[r] = "idle" /\ timer_pending[r] # 0) => callback_[r] # NoCallback
    /\ ret[r] = "destroyed" => (timer_pending[r] = 0 /\ held(r) = 0)

\* C5: a shouldRetry call made with retries_remaining_ = 0 returns
\* NoRetryLimitExceeded, leaves retries_remaining_ at 0, acquires no token and
\* arms no timer; retries_remaining_ is never negative and, once 0, stays 0.
C5_NeverYesAtZero ==
  /\ [](\A r \in Requests : retries_remaining_[r] >= 0)
  /\ [][\A r \in Requests :
          (ret[r] = "live" /\ retries_remaining_[r] = 0) => retries_remaining_'[r] = 0]_vars
  /\ [][\A r \in Requests :
          (Called(r) /\ retries_remaining_[r] = 0) =>
             /\ last_result'[r] = NoRetryLimitExceeded
             /\ pc'[r] = "idle"
             /\ retries_remaining_'[r] = 0
             /\ incs'[r] = incs[r]
             /\ arms'[r] = arms[r]
             /\ timer_pending'[r] = timer_pending[r]]_vars

C5_Witness ==
  /\ last_result[1] = NoRetryLimitExceeded
  /\ would_retry_arg[1]
  /\ retries_remaining_[1] = 0
  /\ calls[1] = 3

\* C6 as stated: every shouldRetry call on a state with a non-empty retry-on
\* set decrements retries_remaining_ by exactly one.
C6_AlwaysDecrements ==
  [][\A r \in Requests :
       (Called(r) /\ retry_on_[r] # {}) =>
          retries_remaining_'[r] = retries_remaining_[r] - 1]_vars

\* C6 (amended): a shouldRetry call made with retries_remaining_ > 0
\* decrements it by exactly one whatever it returns and whatever the retry-on
\* set is; a call made with retries_remaining_ = 0 leaves it at 0.
C6_DecrementsWhilePositive ==
  [][\A r \in Requests :
       /\ Called(r) =>
            retries_remaining_'[r] =
              (IF retries_remaining_[r] > 0 THEN retries_remaining_[r] - 1 ELSE 0)
       /\ Gated(r) => retries_remaining_'[r] = retries_remaining_[r]]_vars

C6_Witness ==
  /\ calls[1] = 2
  /\ last_result[1] = NoOverflow
  /\ retries_remaining_[1] = 0
  /\ route_policy[1].numRetries = 2

\* C7 as stated: a shouldRetry(false) call made while Armed returns No,
\* records one success, releases the token and leaves retries_remaining_ as
\* the earlier Yes decision left it.
C7_ArmedNoKeepsBudget ==
  [][\A r \in Requests :
       (Called(r) /\ callback_[r] # NoCallback /\ ~would_retry_arg'[r]) =>
          /\ last_result'[r] = No
          /\ upstream_rq_retry_success_' = upstream_rq_retry_success_ + 1
          /\ held(r) = 1 /\ incs'[r] - decs'[r] = 0
          /\ retries_remaining_'[r] = retries_remaining_[r]]_vars

\* C7 (amended): a shouldRetry(false) call made while Armed records one
\* success and releases the token; with retries_remaining_ > 0 it returns No
\* and decrements retries_remaining_ by one more, with retries_remaining_ = 0
\* it returns NoRetryLimitExceeded.
C7_ArmedNoConsumesBudget ==
  [][\A r \in Requests :
       (Called(r) /\ callback_[r] # NoCallback /\ ~would_retry_arg'[r]) =>
          /\ upstream_rq_retry_success_' = upstream_rq_retry_success_ + 1
          /\ held(r) = 1 /\ incs'[r] - decs'[r] = 0
          /\ callback_'[r] = NoCallback
          /\ IF retries_remaining_[r] > 0
             THEN /\ last_result'[r] = No
                  /\ retries_remaining_'[r] = retries_remaining_[r] - 1
             ELSE /\ last_result'[r] = NoRetryLimitExceeded
                  /\ retries_remaining_'[r] = 0]_vars

\* the scenario: retry-on 5xx, numRetries 2; Yes, the timer fires, then No
C7_Witness ==
  /\ route_policy[1] = Policy({RETRY_ON_5XX}, 2, <<>>)
  /\ calls[1] = 2
  /\ arms[1] # <<>>
  /\ Len(invoked[1]) = 1
  /\ last_result[1] = No
  /\ upstream_rq_retry_success_ = 1
  /\ held(1) = 0
  /\ retries_remaining_[1] = 0

\* C8 as stated: built from numRetries = 0, a non-empty retry-on set and no
\* max-retries header, the state starts with retries_remaining_ = 0.
C8_ZeroRetriesStartsAtZero ==
  [][\A r \in Requests :
       (/\ Created(r)
        /\ ret'[r] = "live"
        /\ route_policy[r].numRetries = 0
        /\ route_policy[r].retryOn # {}
        /\ EnvoyMaxRetries \notin DOMAIN request_headers[r]) =>
          retries_remaining_'[r] = 0]_vars

\* C8 (amended): built from numRetries = 0 and no max-retries header, the
\* state starts with retries_remaining_ = 1; a state that starts with
\* retries_remaining_ = 0 (a max-retries header of 0) answers its first
\* shouldRetry call with NoRetryLimitExceeded and acquires no token.
C8_ZeroRetriesStartsAtOne ==
  [][\A r \in Requests :
       /\ (/\ Created(r)
           /\ ret'[r] = "live"
           /\ route_policy[r].numRetries = 0
           /\ EnvoyMaxRetries \notin DOMAIN request_headers[r]) =>
             retries_remaining_'[r] = 1
       /\ (Called(r) /\ calls[r] = 0 /\ retries_remaining_[r] = 0) =>
             /\ last_result'[r] = NoRetryLimitExceeded
             /\ pc'[r] = "idle"
             /\ incs'[r] = 0
             /\ callback_'[r] = NoCallback
             /\ retries_current' = retries_current]_vars

C8_Witness ==
  /\ route_policy[1].numRetries = 0
  /\ calls[1] = 1
  /\ would_retry_arg[1]
  /\ last_result[1] = NoRetryLimitExceeded
  /\ incs[1] = 0

C10_DirectivesStripped ==
  [][\A r \in Requests :
       Created(r) =>
          /\ DOMAIN request_headers'[r] =
               (DOMAIN request_headers[r]) \ {EnvoyRetryOn, EnvoyRetryGrpcOn,
                                              EnvoyMaxRetries, EnvoyRetriableStatusCodes}
          /\ \A h \in DOMAIN request_headers'[r] :
               request_headers'[r][h] = request_headers[r][h]]_vars

\* the state a wouldRetryFrom... call could change
members == <<ret, retry_on_, retries_remaining_, retriable_status_codes_, callback_,
             timer_pending, request_headers, retries_current, upstream_rq_retry_,
             upstream_rq_retry_success_, upstream_rq_retry_overflow_, incs, decs>>

\* the status codes a retriable-status-codes header declares
DeclaredCode(token) ==
  CASE token = <<"4", "0", "9">> -> {409}
    [] token = <<"4", "2", "9">> -> {429}
    [] OTHER -> {}

CustomCodes(r) ==
  {route_policy[r].retriableStatusCodes[i] :
     i \in 1..Len(route_policy[r].retriableStatusCodes)}
  \cup (IF EnvoyRetriableStatusCodes \in DOMAIN request_headers[r]
        THEN UNION {DeclaredCode(request_headers[r][EnvoyRetriableStatusCodes][i]) :
                      i \in 1..Len(request_headers[r][EnvoyRetriableStatusCodes])}
        ELSE {})

GrpcBitOf(status) ==
  CASE status = "Canceled" -> {RETRY_ON_GRPC_CANCELLED}
    [] status = "DeadlineExceeded" -> {RETRY_ON_GRPC_DEADLINE_EXCEEDED}
    [] status = "ResourceExhausted" -> {RETRY_ON_GRPC_RESOURCE_EXHAUSTED}
    [] status = "Unavailable" -> {RETRY_ON_GRPC_UNAVAILABLE}
    [] status = "Internal" -> {RETRY_ON_GRPC_INTERNAL}
    [] OTHER -> {}

\* C11: wouldRetryFromHeaders is false for an overloaded or rate-limited
\* response; otherwise it is true exactly when the status is 5xx with the 5xx
\* bit, 502/503/504 with the gateway-error bit, 409 with the retriable-4xx bit,
\* in the custom code list with the retriable-status-codes bit, or the gRPC
\* status is one of the five with its bit set.  The call changes no state.
C11_HeadersPredicate ==
  /\ [](probe.fn = "headers" =>
          LET on == retry_on_[probe.r]
              response == probe.response
              status == response.status
          IN  probe.result <=>
                /\ ~response.overloaded
                /\ ~response.rate_limited
                /\ \/ RETRY_ON_5XX \in on /\ status \in 500..599
                   \/ RETRY_ON_GATEWAY_ERROR \in on /\ status \in {502, 503, 504}
                   \/ RETRY_ON_RETRIABLE_4XX \in on /\ status = 409
                   \/ RETRY_ON_RETRIABLE_STATUS_CODES \in on /\ status \in CustomCodes(probe.r)
                   \/ GrpcBitOf(response.grpc_status) \cap on # {})
  /\ [][(probe' # probe /\ probe'.fn = "headers") => UNCHANGED members]_vars

\* the scenario: retry-on = retriable-status-codes, header "409,429", status 429
C11_Witness ==
  /\ probe.fn = "headers"
  /\ route_policy[1] = Policy({RETRY_ON_RETRIABLE_STATUS_CODES}, 1, <<>>)
  /\ retriable_status_codes_[1] = <<409, 429>>
  /\ probe.response = Response(429, FALSE, FALSE, "none")
  /\ probe.result

\* C12: wouldRetryFromReset is false for the reason overflow; for any other
\* reason it is true exactly when the 5xx or the gateway-error bit is set, or
\* the refused-stream bit with remote-refused-stream, or the connect-failure
\* bit with connection-failure.  The call changes no state.
C12_ResetPredicate ==
  /\ [](probe.fn = "reset" =>
          LET on == retry_on_[probe.r]
          IN  probe.result <=>
                /\ probe.reason # "Overflow"
                /\ \/ RETRY_ON_5XX \in on
                   \/ RETRY_ON_GATEWAY_ERROR \in on
                   \/ RETRY_ON_REFUSED_STREAM \in on
                        /\ probe.reason = "RemoteRefusedStreamReset"
                   \/ RETRY_ON_CONNECT_FAILURE \in on
                        /\ probe.reason = "ConnectionFailure")
  /\ [][(probe' # probe /\ probe'.fn = "reset") => UNCHANGED members]_vars

C12_Witness ==
  /\ probe.fn = "reset"
  /\ probe.reason = "Overflow"
  /\ RETRY_ON_5XX \in retry_on_[1]
  /\ ~probe.result

\* this step is the timer callback of r running
Fired(r) == Len(invoked'[r]) = Len(invoked[r]) + 1

\* this step is the destructor of r
Destroyed(r) == ret[r] = "live" /\ ret'[r] = "destroyed"

\* the token r gives back in resetRetry
released(r) == IF callback_[r] # NoCallback THEN 1 ELSE 0

\* C13 as stated: the timer callback, like the destructor and the reset of the
\* next decision, leaves no continuation registered and no token held, and
\* decrements the shared limiter by the token it held.
C13_FireReturnsToIdle ==
  [][\A r \in Requests :
       (Fired(r) \/ Called(r) \/ Destroyed(r)) =>
          /\ callback_'[r] = NoCallback
          /\ decs'[r] = decs[r] + released(r)
          /\ incs'[r] - decs'[r] = 0
          /\ retries_current' = retries_current - released(r)]_vars

\* C13 (amended): a token is released exactly once, by the reset that starts
\* the next decision or by the destructor; the timer callback invokes the
\* continuation and leaves it registered, the token held and the limiter as
\* it was.
C13_ReleasedByResetOrDestroy ==
  /\ [](\A r \in Requests :
          /\ decs[r] <= incs[r]
          /\ ret[r] = "destroyed" => decs[r] = incs[r])
  /\ [][\A r \in Requests :
          /\ Fired(r) =>
               /\ callback_'[r] = callback_[r]
               /\ incs'[r] = incs[r] /\ decs'[r] = decs[r]
               /\ retries_current' = retries_current
          /\ (Called(r) \/ Destroyed(r)) =>
               /\ callback_'[r] = NoCallback
               /\ decs'[r] = decs[r] + released(r)
               /\ incs'[r] - decs'[r] = 0
               /\ retries_current' = retries_current - released(r)
          /\ decs'[r] # decs[r] => (Called(r) \/ Destroyed(r))]_vars

\* the timer has fired and run the continuation; the token is still held
C13_Witness ==
  /\ Len(invoked[1]) = 1
  /\ invoked[1][1][2] # NoCallback
  /\ timer_pending[1] = 0
  /\ callback_[1] = invoked[1][1][2]
  /\ held(1) = 1
  /\ retries_current = 1

\* C14: the timer is armed exactly by the shouldRetry calls that return Yes;
\* an arm is invoked at most once, and a continuation it invokes is the one
\* passed to that call; with a fair timer, an arm that no later decision and
\* no destruction comes after does invoke its continuation.
C14_ArmedByYesFiresOnce ==
  /\ [](\A r \in Requests :
          /\ Len(arms[r]) = tally[r][Yes]
          /\ timer_pending[r] \in 0..Len(arms[r])
          /\ \A i, j \in 1..Len(invoked[r]) :
               invoked[r][i][1] = invoked[r][j][1] => i = j
          /\ \A i \in 1..Len(invoked[r]) :
               /\ invoked[r][i][1] \in 1..Len(arms[r])
               /\ invoked[r][i][2] \in {NoCallback, arms[r][invoked[r][i][1]]})
  /\ [][\A r \in Requests :
          /\ (Gated(r) /\ last_result'[r] = Yes) =>
               /\ arms'[r] = Append(arms[r], callback_arg[r])
               /\ timer_pending'[r] = Len(arms'[r])
          /\ ~(Gated(r) /\ last_result'[r] = Yes) =>
               /\ arms'[r] = arms[r]
               /\ timer_pending'[r] \in {0, timer_pending[r]}]_vars
  /\ \A r \in Requests : \A k \in 1..MaxCalls :
       (timer_pending[r] = k /\ pc[r] = "idle")
         ~> \/ k \in superseded[r]
            \/ \E i \in 1..Len(invoked[r]) :
                 invoked[r][i][1] = k /\ invoked[r][i][2] = arms[r][k]

\* two Yes calls, each arm fired once with the continuation of its call
C14_Witness ==
  /\ arms[1] = <<"cbA", "cbB">>
  /\ invoked[1] = <<<<1, "cbA">>, <<2, "cbB">>>>
  /\ superseded[1] = {}

\* C15: a shouldRetry call with would_retry, retries_remaining_ > 0 and the
\* limiter saturated at canCreate() returns NoOverflow, adds one to the
\* overflow statistic, calls no inc(), registers no continuation and arms no
\* timer; NoOverflow is returned by no other call.
C15_OverflowOnlyWhenSaturated ==
  /\ [](\A r \in Requests : last_result[r] = NoOverflow => would_retry_arg[r])
  /\ [][\A r \in Requests :
          LET saturated == ~(retries_current - released(r) < retries_max)
              overflows == would_retry_arg'[r] /\ retries_remaining_[r] > 0 /\ saturated
          IN  /\ (Called(r) /\ overflows) =>
                   /\ last_result'[r] = NoOverflow
                   /\ pc'[r] = "idle"
                   /\ upstream_rq_retry_overflow_' = upstream_rq_retry_overflow_ + 1
                   /\ incs'[r] = incs[r]
                   /\ retries_current' = retries_current - released(r)
                   /\ callback_'[r] = NoCallback
                   /\ arms'[r] = arms[r]
                   /\ timer_pending'[r] = timer_pending[r]
              /\ (Called(r) /\ ~overflows) =>
                   /\ last_result'[r] # NoOverflow
                   /\ upstream_rq_retry_overflow_' = upstream_rq_retry_overflow_
              /\ Gated(r) =>
                   /\ last_result'[r] # NoOverflow
                   /\ upstream_rq_retry_overflow_' = upstream_rq_retry_overflow_]_vars

\* the limiter (cap 1) is held by another request when the call comes
C15_Witness ==
  /\ last_result[1] = NoOverflow
  /\ retries_max = 1 /\ others = 1 /\ retries_current = 1
  /\ upstream_rq_retry_overflow_ = 1
  /\ callback_[1] = NoCallback
  /\ arms[1] = <<>>
  /\ incs[1] = 0

\* C16: shouldRetry checks the limiter, then the feature gate, then arms: a
\* call the gate rejects returns No with no inc(), no continuation and no
\* timer; a call that finds the limiter saturated returns NoOverflow with the
\* overflow statistic incremented and never reaches the gate.
C16_GateAfterLimiterBeforeArm ==
  /\ [](\A r \in Requests : pc[r] = "gate" => (callback_[r] = NoCallback /\ held(r) = 0))
  /\ [][\A r \in Requests :
          /\ (Gated(r) /\ last_result'[r] = No) =>
               /\ incs'[r] = incs[r]
               /\ retries_current' = retries_current
               /\ callback_'[r] = NoCallback
               /\ arms'[r] = arms[r]
               /\ timer_pending'[r] = timer_pending[r]
               /\ upstream_rq_retry_' = upstream_rq_retry_
          /\ (Gated(r) /\ last_result'[r] = Yes) =>
               /\ incs'[r] = incs[r] + 1
               /\ retries_current' = retries_current + 1
               /\ callback_'[r] = callback_arg[r]
               /\ timer_pending'[r] # 0
          /\ Gated(r) => last_result'[r] \in {Yes, No}
          /\ (Called(r) /\ pc'[r] = "gate") => retries_current' < retries_max
          /\ (Called(r) /\ would_retry_arg'[r] /\ retries_remaining_[r] > 0
                /\ ~(retries_current' < retries_max)) =>
               /\ pc'[r] = "idle"
               /\ last_result'[r] = NoOverflow
               /\ upstream_rq_retry_overflow_' = upstream_rq_retry_overflow_ + 1]_vars

\* a first call with would_retry that the feature gate rejected
C16_Witness ==
  /\ calls[1] = 1
  /\ pc[1] = "idle"
  /\ would_retry_arg[1]
  /\ last_result[1] = No
  /\ retries_max = 1 /\ retries_current = 0
  /\ incs[1] = 0
  /\ arms[1] = <<>>
  /\ callback_[1] = NoCallback

\* C17: a shouldRetry call adds one to the retry-success statistic exactly
\* when a continuation is registered at the call and its would_retry is false,
\* also when the call then returns NoRetryLimitExceeded; nothing else changes
\* the statistic.
C17_SuccessWhenArmedAndNoRetry ==
  [][/\ \A r \in Requests :
          Called(r) =>
            upstream_rq_retry_success_' =
              upstream_rq_retry_success_
                + (IF callback_[r] # NoCallback /\ ~would_retry_arg'[r] THEN 1 ELSE 0)
     /\ (\A r \in Requests : ~Called(r)) =>
          upstream_rq_retry_success_' = upstream_rq_retry_success_]_vars

\* Yes with the last retry of the budget, then a call with would_retry false
C17_Witness ==
  /\ calls[1] = 2
  /\ ~would_retry_arg[1]
  /\ last_result[1] = NoRetryLimitExceeded
  /\ upstream_rq_retry_success_ = 1
  /\ upstream_rq_retry_ = 1

\* the number a max-retries header declares
DeclaredRetries(value) ==
  CASE value = <<"0">> -> {0}
    [] value = <<"3">> -> {3}
    [] value = <<"1", "2">> -> {12}
    [] OTHER -> {}

\* C18: the constructor leaves retries_remaining_ at max(numRetries, 1),
\* unless a max-retries header is present, parses as an unsigned integer and
\* the effective retry-on set is not empty: then retries_remaining_ is the
\* header's number, larger or smaller; a malformed header changes nothing.
C18_HeaderReplacesRouteCount ==
  [][\A r \in Requests :
       (Created(r) /\ ret'[r] = "live") =>
          LET route == Max(route_policy[r].numRetries, 1)
              declared == IF EnvoyMaxRetries \in DOMAIN request_headers[r]
                          THEN DeclaredRetries(request_headers[r][EnvoyMaxRetries])
                          ELSE {}
          IN  retries_remaining_'[r] =
                (IF declared # {} /\ retry_on_'[r] # {}
                 THEN CHOOSE n \in declared : TRUE
                 ELSE route)]_vars

\* a header of 0 has replaced the route's 2
C18_Witness ==
  /\ ret[1] = "live"
  /\ route_policy[1].numRetries = 2
  /\ retries_remaining_[1] = 0
  /\ retry_on_[1] # {}

\* the calls of r that returned something other than NoRetryLimitExceeded
consumed(r) == tally[r][Yes] + tally[r][No] + tally[r][NoOverflow]

\* C19: retries_remaining_ never increases after construction; the calls that
\* return something other than NoRetryLimitExceeded, each taking one from it,
\* number at most its initial value, and so do the Yes decisions and the timer
\* arms; once that many calls are made, whatever their would_retry, the next
\* call returns NoRetryLimitExceeded.
C19_BudgetOnlyShrinks ==
  /\ [](\A r \in Requests :
          /\ consumed(r) + (IF pc[r] = "gate" THEN 1 ELSE 0) + retries_remaining_[r]
               = initial_remaining[r]
          /\ retries_remaining_[r] >= 0
          /\ tally[r][Yes] <= consumed(r)
          /\ Len(arms[r]) <= tally[r][Yes])
  /\ [][\A r \in Requests :
          /\ ret[r] = "live" => retries_remaining_'[r] <= retries_remaining_[r]
          /\ (Called(r) /\ consumed(r) = initial_remaining[r]) =>
               /\ last_result'[r] = NoRetryLimitExceeded
               /\ pc'[r] = "idle"]_vars

\* budget 2, two calls returned No, no retry was made, the third call is refused
C19_Witness ==
  /\ initial_remaining[1] = 2
  /\ tally[1][No] = 2
  /\ calls[1] = 3
  /\ would_retry_arg[1]
  /\ last_result[1] = NoRetryLimitExceeded
  /\ arms[1] = <<>>
  /\ incs[1] = 0

RECURSIVE SumOver(_, _)
SumOver(f, S) ==
  IF S = {} THEN 0
  ELSE LET x == CHOOSE y \in S : TRUE IN f[x] + SumOver(f, S \ {x})

\* C20: the retry statistic equals the number of Yes decisions and the number
\* of inc() calls; the retry-success statistic never exceeds it; the overflow
\* statistic equals the number of NoOverflow decisions.
C20_StatisticsMatchDecisions ==
  /\ upstream_rq_retry_ = SumOver([r \in Requests |-> tally[r][Yes]], Requests)
  /\ upstream_rq_retry_ = SumOver(incs, Requests)
  /\ upstream_rq_retry_success_ <= upstream_rq_retry_
  /\ upstream_rq_retry_success_ <= SumOver(decs, Requests)
  /\ upstream_rq_retry_overflow_
       = SumOver([r \in Requests |-> tally[r][NoOverflow]], Requests)

\* NoOverflow, then Yes, then a call with would_retry false
C20_Witness ==
  /\ calls[1] = 3
  /\ upstream_rq_retry_overflow_ = 1
  /\ upstream_rq_retry_ = 1
  /\ upstream_rq_retry_success_ = 1
  /\ tally[1][Yes] = 1 /\ tally[1][NoOverflow] = 1

====
